---- MODULE Spec2Model ----
(***************************************************************************)
(* A model of akora/media-batch-manager: the document sorter               *)
(* (src/sort_document.py, DocumentSorter) and the image sorter             *)
(* (src/sort_image.py, FileSorter).                                        *)
(*                                                                         *)
(* Modelling conventions                                                   *)
(*  - a path is a pair <<dir, name>>; a name is a record [ts, stem, ext]   *)
(*    (ts = 0: the name has no leading YYYYMMDD-HHMMSS timestamp);         *)
(*  - a file is a record [path, content];                                  *)
(*  - a Python dict is a sequence of entries in insertion order;           *)
(*  - a cryptographic digest (sha256, md5) is modelled as an injective     *)
(*    tagging of its input: collisions are not modelled;                   *)
(*  - a perceptual digest (imagehash.average_hash) is an attribute of the  *)
(*    image content: a hex string, modelled as a tuple of hex digits.      *)
(***************************************************************************)
EXTENDS Integers, Sequences, FiniteSets, TLC

\* ---------------------------------------------------------------- bounds
\* Largest number of image files in find_duplicates' input list (SpecDup).
MaxImages == 3
\* Largest hash_threshold tried (SpecDup).
MaxThreshold == 2
\* Largest number of files main() finds in the source tree (SpecDedup).
MaxDedupFiles == 3
\* Largest number of files handed to organize_files (SpecOrganize).
MaxOrgFiles == 3
\* Largest max_files_per_folder tried.
MaxCapacity == 2
MaxRunFiles == 3

\* ------------------------------------------------------------ file names
SourceRoot == "source"

\* Stems of the generated file names, in a fixed order.
StemSeq == <<"a", "b", "c", "d", "e">>

\* str.lower() on the extensions the model uses.
Lower(e) ==
  CASE e = ".JPG"  -> ".jpg"
    [] e = ".URL"  -> ".url"
    [] e = ".TXT"  -> ".txt"
    [] OTHER       -> e

\* file_path.suffix.lower()
Ext(f) == Lower(f.path[2].ext)
\* file_path.name
Name(f) == f.path[2]
Dir(f) == f.path[1]

image_extensions ==
  {".jpg", ".jpeg", ".png", ".gif", ".bmp", ".webp", ".svg", ".tiff", ".tif", ".heic"}

\* ---------------------------------------------------------------- hashes
\* A hash string is modelled by its length and its value.  compute_file_hash
\* returning None is the hash NoHash.
NoHash == [len |-> 0, val |-> << >>]

\* Length of an md5 hexdigest.
Md5Len == 32

\* Perceptual digests of the model: three hex digits (sixteen in the
\* program); 003 is two bits and one digit away from 000.
PHashes == ({0, 1} \X {0, 1} \X {0, 1}) \cup {<<0, 0, 3>>}

\* sum(c1 != c2 for c1, c2 in zip(file_hash, existing_hash)): the number of
\* differing hex CHARACTERS (zip stops at the shorter string).
HexDistance(h1, h2) ==
  LET n == IF Len(h1.val) < Len(h2.val) THEN Len(h1.val) ELSE Len(h2.val)
  IN  Cardinality({i \in 1..n : h1.val[i] # h2.val[i]})

\* Number of differing bits of two hex digits.
NibbleBits(a, b) ==
  Cardinality({k \in 0..3 : ((a \div (2^k)) % 2) # ((b \div (2^k)) % 2)})

RECURSIVE SumBits(_, _, _)
SumBits(v1, v2, i) ==
  IF i = 0 THEN 0 ELSE NibbleBits(v1[i], v2[i]) + SumBits(v1, v2, i - 1)

\* Bit-level Hamming distance of two perceptual digests of equal length.
BitDistance(h1, h2) == SumBits(h1.val, h2.val, Len(h1.val))

\* FileSorter.compute_file_hash (sort_image.py): an image's hash is the hex
\* string of its average hash; any other file's hash is the md5 of its size
\* followed by its content, or by its first and last chunk when it is larger
\* than two chunks; any exception gives None.
ImgComputeFileHash(f) ==
  IF ~f.content.readable THEN NoHash
  ELSE IF Ext(f) \in image_extensions
       THEN [len |-> Len(f.content.phash), val |-> f.content.phash]
       ELSE LET c == f.content.chunks
            IN  [len |-> Md5Len,
                 val |-> <<Len(c),
                           IF Len(c) > 2 THEN <<c[1], c[Len(c)]>> ELSE c>>]

\* ------------------------------------------------------- Python dict ops
\* Index of key h in dict d (0: absent).
DictIndex(d, h) ==
  LET hits == {i \in 1..Len(d) : d[i].hash = h}
  IN  IF hits = {} THEN 0 ELSE CHOOSE i \in hits : TRUE

\* hash_dict[h] = p
DictSet(d, h, p) ==
  IF DictIndex(d, h) = 0
  THEN Append(d, [hash |-> h, path |-> p])
  ELSE [d EXCEPT ![DictIndex(d, h)].path = p]

\* duplicates.setdefault(h, []).append(p)
DupAppend(d, h, p) ==
  IF DictIndex(d, h) = 0
  THEN Append(d, [hash |-> h, paths |-> <<p>>])
  ELSE [d EXCEPT ![DictIndex(d, h)].paths = Append(@, p)]

\* ------------------------------------------ FileSorter.find_duplicates
\* Mutant: the scan keeps the LAST canonical within the threshold.
FirstSimilarLast(hd, h, t) ==
  LET hits == {i \in 1..Len(hd) :
                 hd[i].hash.len = h.len /\ HexDistance(h, hd[i].hash) <= t}
  IN  IF hits = {} THEN 0 ELSE CHOOSE i \in hits : \A j \in hits : j <= i

\* Mutant: the comparison is strict.
FirstSimilarStrict(hd, h, t) ==
  LET hits == {i \in 1..Len(hd) :
                 hd[i].hash.len = h.len /\ HexDistance(h, hd[i].hash) < t}
  IN  IF hits = {} THEN 0 ELSE CHOOSE i \in hits : \A j \in hits : i <= j

\* The inner loop of find_duplicates: the first entry of hash_dict, in
\* insertion order, of the same length and within the threshold (0: none).
FirstSimilar(hd, h, t) ==
  LET hits == {i \in 1..Len(hd) :
                 hd[i].hash.len = h.len /\ HexDistance(h, hd[i].hash) <= t}
  IN  IF hits = {} THEN 0 ELSE CHOOSE i \in hits : \A j \in hits : i <= j

\* One iteration of find_duplicates' loop on the state st = [hash_dict,
\* duplicates], for file f and threshold t.
ImgFindDupStep(st, f, t) ==
  LET h == ImgComputeFileHash(f)
  IN  IF h = NoHash THEN st
      ELSE IF Ext(f) \in image_extensions
      THEN LET k == FirstSimilar(st.hash_dict, h, t)
           IN  IF k # 0
               THEN [st EXCEPT !.duplicates =
                                 DupAppend(@, st.hash_dict[k].hash, f.path)]
               ELSE [st EXCEPT !.hash_dict = DictSet(@, h, f.path)]
      ELSE IF DictIndex(st.hash_dict, h) # 0
           THEN [st EXCEPT !.duplicates = DupAppend(@, h, f.path)]
           ELSE [st EXCEPT !.hash_dict = DictSet(@, h, f.path)]

\* ------------------------------------- DocumentSorter: classification
\* Contents of a document file.  readable: open() and read() succeed;
\* utf8: the bytes decode as UTF-8; parses: BeautifulSoup builds a tree;
\* title_bookmark: the tree has a <title> matching "bookmarks?";
\* dated_anchor: it has an <a> with add_date or last_modified;
\* pages: the page count PdfReader gives (-1: PdfReader raises);
\* text: the decoded characters.
DocContent(r, u, p, t, a, n, x) ==
  [readable |-> r, utf8 |-> u, parses |-> p, title_bookmark |-> t,
   dated_anchor |-> a, pages |-> n, text |-> x]

category_mapping(ext) ==
  CASE ext \in {".doc", ".docx", ".pages", ".odt"} -> "documents"
    [] ext \in {".xls", ".xlsx", ".numbers", ".ods", ".csv"} -> "spreadsheets"
    [] ext \in {".ppt", ".pptx", ".key", ".odp"} -> "presentations"
    [] ext \in {".txt", ".md", ".rtf"} -> "notes"
    [] ext \in {".html", ".htm", ".mht", ".url", ".webloc"} -> "web"
    [] ext \in {".zip", ".rar", ".7z", ".tar", ".gz", ".bz2"} -> "archives"
    [] ext \in {".jpg", ".jpeg", ".png", ".gif", ".bmp", ".tiff", ".webp"} -> "images"
    [] ext \in {".mp3", ".wav", ".aac", ".m4a", ".ogg", ".flac"} -> "audio"
    [] ext \in {".mp4", ".mov", ".avi", ".mkv", ".wmv", ".flv"} -> "video"
    [] ext \in {".py", ".js", ".java", ".cpp", ".c", ".h", ".css", ".php",
                ".rb", ".swift", ".go", ".rs"} -> "code"
    [] ext \in {".json", ".xml", ".yaml", ".yml", ".ini", ".conf", ".env"} -> "config"
    [] ext \in {".sql", ".db", ".sqlite", ".sqlite3"} -> "database"
    [] OTHER -> "other"

binary_formats ==
  {".doc", ".rtf", ".docx", ".odt", ".pdf", ".pages", ".xls", ".xlsx", ".xlsm",
   ".ods", ".numbers", ".key", ".ppt", ".pptx", ".odp", ".keynote"}

\* 'bookmark' in file_path.name.lower(), on the stems the model uses.
NameHasBookmark(name) == name.stem \in {"my_bookmarks", "Bookmarks"}

\* Mutant: bookmark files are always recognised by their name.
IsBookmarkFileByName(f) == NameHasBookmark(Name(f))

\* DocumentSorter.is_bookmark_file: the title, then the dated anchors; any
\* exception (open, UTF-8 decoding, both parsers) falls back to the filename.
is_bookmark_file(f) ==
  IF ~f.content.readable \/ ~f.content.utf8 \/ ~f.content.parses
  THEN NameHasBookmark(Name(f))
  ELSE f.content.title_bookmark \/ f.content.dated_anchor

\* DocumentSorter.get_pdf_page_count: 0 when the file cannot be parsed.
get_pdf_page_count(f) ==
  IF ~f.content.readable \/ f.content.pages < 0 THEN 0 ELSE f.content.pages

\* DocumentSorter.get_file_category
get_file_category(f) ==
  IF Ext(f) = ".pdf"
  THEN (IF get_pdf_page_count(f) > 5 THEN "ebooks" ELSE "pdfs")
  ELSE IF Ext(f) \in {".html", ".htm", ".url", ".webloc"}
       THEN (IF is_bookmark_file(f) THEN "bookmarks" ELSE "web")
       ELSE category_mapping(Ext(f))

\* ----------------------------------------- DocumentSorter: signatures
\* Length of a sha256 hexdigest.
Sha256Len == 64

IsSpace(c) == c \in {" ", "\n", "\t"}

\* str.lower() on the characters the model uses.
LowerChar(c) ==
  CASE c = "A" -> "a"
    [] c = "B" -> "b"
    [] OTHER   -> c

\* Mutant: whitespace is removed, the case is kept.
RECURSIVE NormalizeKeepCase(_)
NormalizeKeepCase(t) ==
  IF t = << >> THEN << >>
  ELSE IF IsSpace(Head(t)) THEN NormalizeKeepCase(Tail(t))
       ELSE <<Head(t)>> \o NormalizeKeepCase(Tail(t))

\* DocumentSorter.normalize_content: ''.join(content.split()).lower()
RECURSIVE normalize_content(_)
normalize_content(t) ==
  IF t = << >> THEN << >>
  ELSE IF IsSpace(Head(t)) THEN normalize_content(Tail(t))
       ELSE <<LowerChar(Head(t))>> \o normalize_content(Tail(t))

\* bytes.hex(): every byte becomes its two hex digits.
Hex(t) == [i \in 1..Len(t) |-> <<"hex", t[i]>>]

\* DocumentSorter.read_file_content: the hex string of the bytes of a binary
\* format, the decoded text of any other file, "" when reading fails.
read_file_content(f) ==
  IF ~f.content.readable THEN << >>
  ELSE IF Ext(f) \in binary_formats THEN Hex(f.content.text)
       ELSE f.content.text

\* DocumentSorter.compute_file_hash: None for an empty or unreadable file,
\* the hex string itself for a binary format, else the sha256 of the
\* normalized text.
DocComputeFileHash(f) ==
  LET content == read_file_content(f)
  IN  IF content = << >> THEN NoHash
      ELSE IF Ext(f) \in binary_formats
           THEN [len |-> 2 * Len(f.content.text), val |-> <<"hex", content>>]
           ELSE [len |-> Sha256Len, val |-> <<"sha256", normalize_content(content)>>]

\* One iteration of DocumentSorter.find_duplicates' loop on the state
\* st = [hash_dict, duplicates], for file f.
DocFindDupStep(st, f) ==
  LET h == DocComputeFileHash(f)
  IN  IF h = NoHash THEN st
      ELSE IF DictIndex(st.hash_dict, h) # 0
           THEN [st EXCEPT !.duplicates = DupAppend(@, h, f.path)]
           ELSE [st EXCEPT !.hash_dict = DictSet(@, h, f.path)]

RECURSIVE SeqToSet(_)
SeqToSet(s) == IF s = << >> THEN {} ELSE {Head(s)} \cup SeqToSet(Tail(s))

\* Mutant: every list of duplicates is marked whole.
MarkDuplicatesAll(dups) == UNION {SeqToSet(dups[i].paths) : i \in 1..Len(dups)}

\* main (sort_image.py): of every list of duplicates longer than one, the
\* first path is kept and the others are marked.
MarkDuplicates(dups) ==
  UNION {SeqToSet(Tail(dups[i].paths)) :
           i \in {j \in 1..Len(dups) : Len(dups[j].paths) > 1}}

\* ----------------------------------------------------------------- state
VARIABLES
  files,            \* the input list of files (get_all_files' result)
  hash_threshold,   \* find_duplicates' hash_threshold
  hash_threshold2,  \* the threshold of the second run compared with it
  fd_i,             \* files[1..fd_i] have been through find_duplicates' loop
  hash_dict,        \* find_duplicates' hash_dict
  duplicates,       \* find_duplicates' duplicates
  hash_dict2,       \* hash_dict of the run under hash_threshold2
  duplicates2,      \* duplicates of the run under hash_threshold2
  cls_log,          \* the files classified last, each with the category given
  variant,          \* "doc": sort_document.py, "img": sort_image.py
  pc,               \* the statement main() is at
  src_files,        \* the paths of the files now in the source tree
  mh_i,             \* files[1..mh_i] have been through main's hashing loop
  unique_files,     \* main's unique_files
  processed_hashes, \* main's processed_hashes (sort_document.py)
  duplicate_paths,  \* main's duplicate_paths (sort_image.py)
  rm_todo,          \* the paths the running removal loop has still to visit
  log,              \* the operations that failed and were skipped
  max_files_per_folder,
  dest0,            \* the destination tree when organize_files was called
  dest,             \* the destination tree: batch folder -> its entries
  current_folder_num,
  processed_files,
  org_todo,         \* the files organize_files has still to place
  cur_category,     \* the category organize_files is processing
  org_file          \* the file being placed (a set of at most one path)

dupVars == <<files, hash_threshold, hash_threshold2, fd_i, hash_dict,
             duplicates, hash_dict2, duplicates2>>

clsVars == <<cls_log>>

mainVars == <<variant, pc, src_files, mh_i, unique_files, processed_hashes,
              duplicate_paths, rm_todo, log>>

orgVars == <<max_files_per_folder, dest0, dest, current_folder_num,
             processed_files, org_todo, cur_category, org_file>>

\* clean_source_directory: the directories and .DS_Store files of the source
\* tree and the directories os.walk has still to yield.
VARIABLES src_dirs, ds_store, walk_todo

cleanVars == <<src_dirs, ds_store, walk_todo>>

vars == <<dupVars, clsVars, mainVars, orgVars, cleanVars>>

\* The values of the variables a specification does not use.
DupIdle ==
  /\ files = << >>
  /\ hash_threshold = 0
  /\ hash_threshold2 = 0
  /\ fd_i = 0
  /\ hash_dict = << >>
  /\ duplicates = << >>
  /\ hash_dict2 = << >>
  /\ duplicates2 = << >>

ClsIdle == cls_log = << >>

MainIdle ==
  /\ variant = "img"
  /\ pc = "idle"
  /\ src_files = {}
  /\ mh_i = 0
  /\ unique_files = {}
  /\ processed_hashes = {}
  /\ duplicate_paths = {}
  /\ rm_todo = {}
  /\ log = {}

\* The source tree: the root, a directory in it and one inside that.
Dirs == {"source", "source/a", "source/a/b"}
DirSeq == <<"source", "source/a", "source/a/b", "source", "source/a">>

CleanIdle ==
  /\ src_dirs = Dirs
  /\ ds_store = {}
  /\ walk_todo = << >>

OrgIdle ==
  /\ max_files_per_folder = 1
  /\ dest0 = << >>
  /\ dest = << >>
  /\ current_folder_num = 1
  /\ processed_files = {}
  /\ org_todo = {}
  /\ cur_category = ""
  /\ org_file = {}

\* --------------------- find_duplicates under two thresholds (SpecDup)
\* The i-th generated image file of the source root.
ImagePath(i) == <<SourceRoot, [ts |-> 0, stem |-> StemSeq[i], ext |-> ".jpg"]>>

\* Contents of an image file: readable with a perceptual digest, or not.
ImageContents ==
  {[readable |-> TRUE, phash |-> d, chunks |-> << >>] : d \in PHashes}
    \cup {[readable |-> FALSE, phash |-> << >>, chunks |-> << >>]}

ImageFileLists ==
  UNION {{[i \in 1..n |-> [path |-> ImagePath(i), content |-> c[i]]] :
            c \in [1..n -> ImageContents]} : n \in 0..MaxImages}

InitDup ==
  /\ files \in ImageFileLists
  /\ hash_threshold \in 0..MaxThreshold
  /\ hash_threshold2 \in hash_threshold..MaxThreshold
  /\ fd_i = 0
  /\ hash_dict = << >>
  /\ duplicates = << >>
  /\ hash_dict2 = << >>
  /\ duplicates2 = << >>
  /\ ClsIdle
  /\ MainIdle
  /\ OrgIdle
  /\ CleanIdle

\* One iteration of "for file_path in tqdm(files)" in both runs.
FindDuplicatesStep ==
  /\ fd_i < Len(files)
  /\ LET f  == files[fd_i + 1]
         s1 == ImgFindDupStep([hash_dict |-> hash_dict, duplicates |-> duplicates],
                              f, hash_threshold)
         s2 == ImgFindDupStep([hash_dict |-> hash_dict2, duplicates |-> duplicates2],
                              f, hash_threshold2)
     IN  /\ hash_dict' = s1.hash_dict
         /\ duplicates' = s1.duplicates
         /\ hash_dict2' = s2.hash_dict
         /\ duplicates2' = s2.duplicates
  /\ fd_i' = fd_i + 1
  /\ UNCHANGED <<cleanVars, files, hash_threshold, hash_threshold2, clsVars, mainVars, orgVars>>

NextDup == FindDuplicatesStep

SpecDup == InitDup /\ [][NextDup]_vars

\* ------------------------------------- get_file_category (SpecClassify)
ClsStems == {"index", "my_bookmarks"}
ClsExts == {".pdf", ".html", ".URL", ".rtf", ".xyz"}
ClsContents ==
  { DocContent(FALSE, FALSE, FALSE, FALSE, FALSE, -1, <<"a">>),  \* unreadable
    DocContent(TRUE, FALSE, FALSE, FALSE, FALSE, -1, <<"a">>),   \* not UTF-8
    DocContent(TRUE, FALSE, FALSE, FALSE, FALSE, 5, <<"a">>),    \* 5-page pdf
    DocContent(TRUE, FALSE, FALSE, FALSE, FALSE, 6, <<"a">>),    \* 6-page pdf
    DocContent(TRUE, TRUE, FALSE, FALSE, FALSE, -1, <<"a">>),    \* unparsable
    DocContent(TRUE, TRUE, TRUE, FALSE, FALSE, -1, <<"a">>),     \* plain page
    DocContent(TRUE, TRUE, TRUE, TRUE, FALSE, -1, <<"a">>),      \* bookmark title
    DocContent(TRUE, TRUE, TRUE, FALSE, TRUE, -1, <<"a">>) }     \* dated anchors

ClsFiles ==
  {[path |-> <<SourceRoot, [ts |-> 0, stem |-> st, ext |-> e]>>, content |-> c] :
     st \in ClsStems, e \in ClsExts, c \in ClsContents}

InitClassify ==
  /\ DupIdle
  /\ MainIdle
  /\ OrgIdle
  /\ CleanIdle
  /\ cls_log = << >>

\* One call of get_file_category; cls_log keeps the result and one earlier
\* result, any of the earlier ones.
Classify ==
  \E f \in ClsFiles :
    LET r == [file |-> f, category |-> get_file_category(f)]
    IN  /\ \/ cls_log' = (IF cls_log = << >> THEN <<r>> ELSE <<cls_log[1], r>>)
           \/ /\ Len(cls_log) = 2
              /\ cls_log' = <<cls_log[2], r>>
        /\ UNCHANGED <<cleanVars, dupVars, mainVars, orgVars>>

NextClassify == Classify

SpecClassify == InitClassify /\ [][NextClassify]_vars

\* The pairs of results in cls_log for files of one extension and content.
SameExtContent ==
  {p \in (1..Len(cls_log)) \X (1..Len(cls_log)) :
     /\ Ext(cls_log[p[1]].file) = Ext(cls_log[p[2]].file)
     /\ cls_log[p[1]].file.content = cls_log[p[2]].file.content}

\* Reading or parsing the content of file f as markup fails.
MarkupFails(f) == ~f.content.readable \/ ~f.content.utf8 \/ ~f.content.parses

WebLike(f) == Ext(f) \in {".html", ".htm", ".url", ".webloc"}

\* C8 (original claim): two files with the same extension and the same
\* content receive the same category, whatever their filenames and whatever
\* was classified before, also when parsing or decoding the content fails.
C8_PureOfExtContent ==
  \A p \in SameExtContent : cls_log[p[1]].category = cls_log[p[2]].category

\* C8 (amended): the category depends on nothing but the file (never on the
\* order or on earlier classifications); two files with the same extension
\* and content receive the same category whatever their filenames, except a
\* web-like file (.html, .htm, .url, .webloc) whose content cannot be read,
\* decoded as UTF-8 or parsed: its category is bookmarks if its filename
\* contains "bookmark" and web otherwise.
C8_PureUpToFilenameFallback ==
  /\ \A p \in SameExtContent :
       LET f == cls_log[p[1]].file
           g == cls_log[p[2]].file
       IN  \/ cls_log[p[1]].category = cls_log[p[2]].category
           \/ /\ WebLike(f) /\ MarkupFails(f)
              /\ NameHasBookmark(Name(f)) # NameHasBookmark(Name(g))
  /\ \A i \in 1..Len(cls_log) :
       LET f == cls_log[i].file
       IN  WebLike(f) /\ MarkupFails(f) =>
             cls_log[i].category =
               (IF NameHasBookmark(Name(f)) THEN "bookmarks" ELSE "web")

\* C8 witness: two web-like files of one parsable content and different
\* filenames were classified, one after the other, to the same category.
C8_Witness ==
  /\ Len(cls_log) = 2
  /\ <<1, 2>> \in SameExtContent
  /\ WebLike(cls_log[1].file) /\ ~MarkupFails(cls_log[1].file)
  /\ Name(cls_log[1].file) # Name(cls_log[2].file)
  /\ cls_log[1].category = "bookmarks"
  /\ cls_log[2].category = "bookmarks"

\* ----------------------------------------- main: deduplication (SpecDedup)
\* The texts the model draws document contents from.
Texts == {<< >>, <<" ">>, <<"a">>, <<"A", " ">>, <<"\n", "a">>, <<"b">>}

\* What a file of the source tree is: an extension and a content.
DocKinds ==
  {[ext |-> ".txt", content |-> DocContent(TRUE, TRUE, FALSE, FALSE, FALSE, -1, t)] :
      t \in Texts}
    \cup {[ext |-> ".TXT", content |-> DocContent(FALSE, FALSE, FALSE, FALSE, FALSE, -1, <<"a">>)]}
    \cup {[ext |-> ".rtf", content |-> DocContent(TRUE, FALSE, FALSE, FALSE, FALSE, -1, t)] :
            t \in {<<"a">>, <<"A", " ">>}}

ImgKinds ==
  {[ext |-> ".jpg", content |-> [readable |-> TRUE, phash |-> d, chunks |-> << >>]] :
      d \in {<<0, 0, 0>>, <<0, 0, 1>>}}
    \cup {[ext |-> ".JPG", content |-> [readable |-> FALSE, phash |-> << >>, chunks |-> << >>]]}
    \cup {[ext |-> ".mp4", content |-> [readable |-> TRUE, phash |-> << >>, chunks |-> c]] :
            c \in {<<1>>, <<1, 2, 1>>, <<1, 3, 1>>}}

Kinds(v) == IF v = "doc" THEN DocKinds ELSE ImgKinds

\* The lists of n files with pairwise distinct paths, of the given kinds.
FileLists(kinds, n) ==
  {[i \in 1..n |->
      [path |-> <<DirSeq[i], [ts |-> 0, stem |-> StemSeq[i], ext |-> k[i].ext]>>,
       content |-> k[i].content]] : k \in [1..n -> kinds]}

PathsOf(fs) == {fs[i].path : i \in 1..Len(fs)}

\* compute_file_hash of the running variant.
ComputeFileHash(f) ==
  IF variant = "doc" THEN DocComputeFileHash(f) ELSE ImgComputeFileHash(f)

\* main() starts on a source tree holding the files get_all_files returns.
MainStart(v, fs) ==
  /\ variant = v
  /\ files = fs
  /\ pc = IF v = "doc" THEN (IF Len(fs) = 0 THEN "done" ELSE "main_hash")
          ELSE "find_duplicates"
  /\ src_files = PathsOf(fs)
  /\ hash_threshold = 0
  /\ hash_threshold2 = 0
  /\ fd_i = 0
  /\ hash_dict = << >>
  /\ duplicates = << >>
  /\ hash_dict2 = << >>
  /\ duplicates2 = << >>
  /\ mh_i = 0
  /\ unique_files = {}
  /\ processed_hashes = {}
  /\ duplicate_paths = {}
  /\ rm_todo = {}
  /\ log = {}

InitDedup ==
  /\ \E v \in {"doc", "img"} : \E n \in 0..MaxDedupFiles :
       \E fs \in FileLists(Kinds(v), n) : MainStart(v, fs)
  /\ ClsIdle
  /\ OrgIdle
  /\ CleanIdle

\* sort_document.py main: one iteration of "for file_path in all_files".
MainHashStep ==
  /\ pc = "main_hash"
  /\ mh_i < Len(files)
  /\ LET f == files[mh_i + 1]
         h == DocComputeFileHash(f)
     IN  IF h # NoHash /\ h \notin processed_hashes
         THEN /\ unique_files' = unique_files \cup {f.path}
              /\ processed_hashes' = processed_hashes \cup {h}
         ELSE UNCHANGED <<unique_files, processed_hashes>>
  /\ mh_i' = mh_i + 1
  /\ UNCHANGED <<cleanVars, dupVars, clsVars, orgVars, variant, pc, src_files, duplicate_paths,
                 rm_todo, log>>

\* The hashing loop ends: main calls find_duplicates.
MainHashDone ==
  /\ pc = "main_hash"
  /\ mh_i = Len(files)
  /\ pc' = "find_duplicates"
  /\ UNCHANGED <<cleanVars, dupVars, clsVars, orgVars, variant, src_files, mh_i, unique_files,
                 processed_hashes, duplicate_paths, rm_todo, log>>

\* find_duplicates, called by main: one iteration of its loop.
MainFindDuplicatesStep ==
  /\ pc = "find_duplicates"
  /\ fd_i < Len(files)
  /\ LET f  == files[fd_i + 1]
         st == [hash_dict |-> hash_dict, duplicates |-> duplicates]
         s1 == IF variant = "doc" THEN DocFindDupStep(st, f)
               ELSE ImgFindDupStep(st, f, hash_threshold)
     IN  /\ hash_dict' = s1.hash_dict
         /\ duplicates' = s1.duplicates
  /\ fd_i' = fd_i + 1
  /\ UNCHANGED <<cleanVars, files, hash_threshold, hash_threshold2, hash_dict2, duplicates2,
                 clsVars, mainVars, orgVars>>

\* sort_document.py: find_duplicates returns, main calls organize_files.
DocFindDuplicatesDone ==
  /\ pc = "find_duplicates"
  /\ variant = "doc"
  /\ fd_i = Len(files)
  /\ pc' = "organize"
  /\ UNCHANGED <<cleanVars, dupVars, clsVars, orgVars, variant, src_files, mh_i, unique_files,
                 processed_hashes, duplicate_paths, rm_todo, log>>

\* sort_image.py: find_duplicates returns, main marks the duplicates.
ImgMarkDuplicates ==
  /\ pc = "find_duplicates"
  /\ variant = "img"
  /\ fd_i = Len(files)
  /\ duplicate_paths' = MarkDuplicates(duplicates)
  /\ rm_todo' = duplicate_paths'
  /\ pc' = "remove_duplicates"
  /\ UNCHANGED <<cleanVars, dupVars, clsVars, orgVars, variant, src_files, mh_i, unique_files,
                 processed_hashes, log>>

\* sort_image.py main: one iteration of "for dup_path in duplicate_paths";
\* unlink may fail, and the failure is printed and skipped.
ImgRemoveDuplicate ==
  /\ pc = "remove_duplicates"
  /\ \E p \in rm_todo :
       /\ rm_todo' = rm_todo \ {p}
       /\ \/ /\ src_files' = src_files \ {p}
             /\ log' = log
          \/ /\ p \in src_files
             /\ src_files' = src_files
             /\ log' = log \cup {<<"unlink", p>>}
  /\ UNCHANGED <<cleanVars, dupVars, clsVars, orgVars, variant, pc, mh_i, unique_files,
                 processed_hashes, duplicate_paths>>

\* sort_image.py main: unique_files is what is not marked; organize_files
\* is called.
ImgUniqueFiles ==
  /\ pc = "remove_duplicates"
  /\ rm_todo = {}
  /\ unique_files' = PathsOf(files) \ duplicate_paths
  /\ pc' = "organize"
  /\ UNCHANGED <<cleanVars, dupVars, clsVars, orgVars, variant, src_files, mh_i, processed_hashes,
                 duplicate_paths, rm_todo, log>>

NextDedup ==
  \/ MainHashStep
  \/ MainHashDone
  \/ MainFindDuplicatesStep
  \/ DocFindDuplicatesDone
  \/ ImgMarkDuplicates
  \/ ImgRemoveDuplicate
  \/ ImgUniqueFiles

SpecDedup == InitDedup /\ [][NextDedup]_vars

\* -------------------------------------------- organize_files (SpecOrganize)
\* The file of the input list at path p, and its category.
FileAt(p) == files[CHOOSE i \in 1..Len(files) : files[i].path = p]
Category(p) == IF variant = "doc" THEN get_file_category(FileAt(p)) ELSE ""

\* extract_timestamp(file_path.name): 0 stands for datetime(1970, 1, 1).
extract_timestamp(name) == name.ts

\* The decimal digits of n, and f"{n:03d}".
RECURSIVE Digits(_)
Digits(n) == IF n < 10 THEN <<n>> ELSE Digits(n \div 10) \o <<n % 10>>

RECURSIVE Pad3(_)
Pad3(d) == IF Len(d) >= 3 THEN d ELSE Pad3(<<0>> \o d)

\* A folder matched by glob('batch_*') whose name holds no number ("batch_old").
NonNumeric == -1

\* The part of a folder name after "batch_"; 10 stands for a letter, which
\* sorts after every digit.
BatchName(n) == IF n = NonNumeric THEN <<10>> ELSE Pad3(Digits(n))

\* The order of Python strings (and of Paths), on strings of digits.
RECURSIVE LexLess(_, _)
LexLess(a, b) ==
  IF a = << >> THEN b # << >>
  ELSE IF b = << >> THEN FALSE
  ELSE IF Head(a) # Head(b) THEN Head(a) < Head(b)
  ELSE LexLess(Tail(a), Tail(b))

\* The numbers of the batch folders of category cat in destination tree d.
BatchNums(d, cat) == {k[2] : k \in {x \in DOMAIN d : x[1] = cat}}

\* FileSorter.organize_files: the first folder number, one more than the
\* number of max(existing_folders), the greatest folder name.
InitialFolderNum(d) ==
  LET nums == BatchNums(d, "")
  IN  IF nums = {} THEN 1
      ELSE LET last == CHOOSE n \in nums :
                         \A m \in nums : m = n \/ LexLess(BatchName(m), BatchName(n))
           IN  IF last = NonNumeric THEN 1 ELSE last + 1

\* folder.mkdir(parents=True, exist_ok=True)
Mkdir(d, key) == IF key \in DOMAIN d THEN d ELSE (key :> {}) @@ d

\* sum(1 for _ in folder.glob('*'))
FileCount(d, key) == Cardinality(d[key])

\* Mutant: a full folder is taken once more.
FolderHasRoomOffByOne(count) == count <= max_files_per_folder

\* get_next_batch_folder: file_count < self.max_files_per_folder
FolderHasRoom(count) == count < max_files_per_folder

\* Mutant: a full folder is tried again.
NextFolderNumStay(n) == n

\* Mutant: a folder number is skipped.
NextFolderNumSkip(n) == n + 2

\* get_next_batch_folder: self.current_folder_num += 1
NextFolderNum(n) == n + 1

\* Writing a file named as path p into a folder replaces the entry of that name.
PutEntry(entries, p, origin) ==
  {x \in entries : x.name # p[2]} \cup {[name |-> p[2], origin |-> origin]}

\* Mutant: a failed move ends the run.
AfterMoveFailureRaise == "crashed"

\* organize_files: "except Exception" around the move goes on with the next
\* file.
AfterMoveFailure == "organize_loop"

\* organize_files starts: sort_image.py finds the first folder number,
\* sort_document.py groups the files by category.
OrganizeBegin ==
  /\ pc = "organize"
  /\ org_todo' = unique_files
  /\ IF variant = "img"
     THEN /\ current_folder_num' = InitialFolderNum(dest)
          /\ pc' = "organize_loop"
     ELSE /\ current_folder_num' = current_folder_num
          /\ pc' = "organize_category"
  /\ UNCHANGED <<cleanVars, dupVars, clsVars, variant, src_files, mh_i, unique_files,
                 processed_hashes, duplicate_paths, rm_todo, log,
                 max_files_per_folder, dest0, dest, processed_files,
                 cur_category, org_file>>

\* sort_document.py: "for category, sorted_files in files_by_category.items()"
\* takes a category and resets the folder number.
OrganizeNextCategory ==
  /\ pc = "organize_category"
  /\ \E c \in {Category(p) : p \in org_todo} :
       cur_category' = c
  /\ current_folder_num' = 1
  /\ pc' = "organize_loop"
  /\ UNCHANGED <<cleanVars, dupVars, clsVars, variant, src_files, mh_i, unique_files,
                 processed_hashes, duplicate_paths, rm_todo, log,
                 max_files_per_folder, dest0, dest, processed_files,
                 org_todo, org_file>>

\* The files the loop of organize_files may take next: in sort_image.py those
\* of the least timestamp, in sort_document.py those of the category.
Candidates ==
  IF variant = "img"
  THEN {p \in org_todo :
          \A q \in org_todo : extract_timestamp(p[2]) <= extract_timestamp(q[2])}
  ELSE {p \in org_todo : Category(p) = cur_category}

\* The loop takes the next file and calls get_next_batch_folder.
OrganizePick ==
  /\ pc = "organize_loop"
  /\ \E p \in Candidates : org_file' = {p}
  /\ pc' = "next_batch_folder"
  /\ UNCHANGED <<cleanVars, dupVars, clsVars, variant, src_files, mh_i, unique_files,
                 processed_hashes, duplicate_paths, rm_todo, log,
                 max_files_per_folder, dest0, dest, current_folder_num,
                 processed_files, org_todo, cur_category>>

\* sort_document.py: the files of the category are exhausted.
OrganizeCategoryDone ==
  /\ pc = "organize_loop"
  /\ variant = "doc"
  /\ Candidates = {}
  /\ pc' = "organize_category"
  /\ UNCHANGED <<cleanVars, dupVars, clsVars, variant, src_files, mh_i, unique_files,
                 processed_hashes, duplicate_paths, rm_todo, log, orgVars>>

\* organize_files returns.
OrganizeDone ==
  /\ org_todo = {}
  /\ \/ pc = "organize_category"
     \/ pc = "organize_loop" /\ variant = "img"
  /\ pc' = "clean"
  /\ UNCHANGED <<cleanVars, dupVars, clsVars, variant, src_files, mh_i, unique_files,
                 processed_hashes, duplicate_paths, rm_todo, log, orgVars>>

\* get_next_batch_folder: one iteration of "while True".
GetNextBatchFolderIter ==
  /\ pc = "next_batch_folder"
  /\ LET key == <<cur_category, current_folder_num>>
         d1  == Mkdir(dest, key)
     IN  /\ dest' = d1
         /\ IF FolderHasRoom(FileCount(d1, key))
            THEN /\ pc' = "move"
                 /\ current_folder_num' = current_folder_num
            ELSE /\ pc' = pc
                 /\ current_folder_num' = NextFolderNum(current_folder_num)
  /\ UNCHANGED <<cleanVars, dupVars, clsVars, variant, src_files, mh_i, unique_files,
                 processed_hashes, duplicate_paths, rm_todo, log,
                 max_files_per_folder, dest0, processed_files, org_todo,
                 cur_category, org_file>>

\* shutil.move (sort_document.py) or shutil.copy2 (sort_image.py) succeeds.
MoveFileOk ==
  /\ pc = "move"
  /\ \E p \in org_file :
       LET key == <<cur_category, current_folder_num>>
       IN  /\ p \in src_files
           /\ dest' = [dest EXCEPT ![key] = PutEntry(@, p, p)]
           /\ src_files' = IF variant = "doc" THEN src_files \ {p} ELSE src_files
           /\ processed_files' = processed_files \cup {p}
           /\ org_todo' = org_todo \ {p}
  /\ org_file' = {}
  /\ pc' = "organize_loop"
  /\ UNCHANGED <<cleanVars, dupVars, clsVars, variant, mh_i, unique_files,
                 processed_hashes, duplicate_paths, rm_todo, log,
                 max_files_per_folder, dest0, current_folder_num, cur_category>>

\* The move or copy raises: nothing was written, or a file of the name was
\* written to the folder (a partial copy; a copy whose source could not be
\* removed).  The source file stays and is not recorded as processed.
MoveFileFails ==
  /\ pc = "move"
  /\ \E p \in org_file :
       LET key == <<cur_category, current_folder_num>>
       IN  /\ \/ dest' = dest
              \/ /\ p \in src_files
                 /\ dest' = [dest EXCEPT ![key] = PutEntry(@, p, <<"partial", p[2]>>)]
           /\ log' = log \cup {<<"move", p>>}
           /\ org_todo' = org_todo \ {p}
  /\ org_file' = {}
  /\ pc' = AfterMoveFailure
  /\ UNCHANGED <<cleanVars, dupVars, clsVars, variant, src_files, mh_i, unique_files,
                 processed_hashes, duplicate_paths, rm_todo,
                 max_files_per_folder, dest0, current_folder_num,
                 processed_files, cur_category>>

NextOrganize ==
  \/ OrganizeBegin
  \/ OrganizeNextCategory
  \/ OrganizePick
  \/ OrganizeCategoryDone
  \/ OrganizeDone
  \/ GetNextBatchFolderIter
  \/ MoveFileOk
  \/ MoveFileFails

\* The names of the files organize_files is tried on.
OrgNames(v) ==
  IF v = "doc"
  THEN <<[ts |-> 0, stem |-> "a", ext |-> ".txt"],
         [ts |-> 0, stem |-> "b", ext |-> ".txt"],
         [ts |-> 0, stem |-> "c", ext |-> ".txt"],
         [ts |-> 0, stem |-> "a", ext |-> ".html"]>>
  ELSE <<[ts |-> 0, stem |-> "a", ext |-> ".jpg"],
         [ts |-> 1, stem |-> "a", ext |-> ".jpg"],
         [ts |-> 0, stem |-> "b", ext |-> ".png"],
         [ts |-> 1, stem |-> "c", ext |-> ".jpg"]>>

OrgContent(v) ==
  IF v = "doc" THEN DocContent(TRUE, TRUE, TRUE, FALSE, FALSE, -1, <<"a">>)
  ELSE [readable |-> TRUE, phash |-> <<0, 0, 0>>, chunks |-> << >>]

\* Four files in the source root and one of the first name in a directory.
OrgFiles(v) ==
  [i \in 1..5 |->
     [path |-> <<(IF i <= 4 THEN "source" ELSE "source/a"),
                 OrgNames(v)[((i - 1) % 4) + 1]>>,
      content |-> OrgContent(v)]]

\* The names of the entries a destination folder holds before the run.
OldName(v, i) ==
  [ts |-> 100 + i, stem |-> "old", ext |-> IF v = "doc" THEN ".txt" ELSE ".jpg"]

OldEntries(v, names) == {[name |-> n, origin |-> <<"dest", n>>] : n \in names}

Fill(v, k) == OldEntries(v, {OldName(v, i) : i \in 1..k})

\* The destination trees organize_files is tried on, every folder within
\* capacity c: none; a full folder; a full folder holding a file named as a
\* source file; a full folder and one with room; folders 999 and 1000; a
\* folder without a number.
PreDests(v, c) ==
  LET cat == IF v = "doc" THEN "notes" ELSE ""
  IN  { << >>,
        (<<cat, 1>> :> Fill(v, c)),
        (<<cat, 1>> :> (Fill(v, c - 1) \cup OldEntries(v, {OrgNames(v)[1]}))),
        (<<cat, 1>> :> Fill(v, c)) @@ (<<cat, 2>> :> Fill(v, c - 1)),
        (<<cat, 999>> :> Fill(v, c)) @@ (<<cat, 1000>> :> Fill(v, c - 1)),
        (<<cat, NonNumeric>> :> Fill(v, c)) @@ (<<cat, 1>> :> Fill(v, c - 1)) }

\* organize_files(unique_files) is called on destination tree d with capacity c.
OrganizeStart(v, fs, u, c, d) ==
  /\ variant = v
  /\ files = fs
  /\ pc = "organize"
  /\ src_files = PathsOf(fs)
  /\ unique_files = u
  /\ max_files_per_folder = c
  /\ dest0 = d
  /\ dest = d
  /\ hash_threshold = 0
  /\ hash_threshold2 = 0
  /\ fd_i = 0
  /\ hash_dict = << >>
  /\ duplicates = << >>
  /\ hash_dict2 = << >>
  /\ duplicates2 = << >>
  /\ mh_i = 0
  /\ processed_hashes = {}
  /\ duplicate_paths = {}
  /\ rm_todo = {}
  /\ log = {}
  /\ current_folder_num = 1
  /\ processed_files = {}
  /\ org_todo = {}
  /\ cur_category = ""
  /\ org_file = {}

InitOrganize ==
  /\ \E v \in {"doc", "img"} : \E c \in 1..MaxCapacity :
       \E d \in PreDests(v, c) :
         \E u \in {x \in SUBSET PathsOf(OrgFiles(v)) : Cardinality(x) <= MaxOrgFiles} :
           OrganizeStart(v, OrgFiles(v), u, c, d)
  /\ ClsIdle
  /\ CleanIdle

SpecOrganize == InitOrganize /\ [][NextOrganize]_vars

\* C1: no destination batch folder ever holds more than max_files_per_folder
\* entries, every folder that existed before the run being within capacity.
C1_WithinCapacity ==
  \A k \in DOMAIN dest : Cardinality(dest[k]) <= max_files_per_folder

\* C1 witness: organize_files returned, a folder that existed and was full
\* is still at capacity and files of the run went to a later folder.
C1_Witness ==
  /\ pc = "clean"
  /\ \E k \in DOMAIN dest0 :
       /\ Cardinality(dest0[k]) = max_files_per_folder
       /\ Cardinality(dest[k]) = max_files_per_folder
  /\ \E k \in DOMAIN dest : \E x \in dest[k] : x.origin \in processed_files
  /\ Cardinality(processed_files) > max_files_per_folder

\* The least number of folders of capacity c that hold n files.
CeilDiv(n, c) == (n + c - 1) \div c

\* The case of C10: the destination was empty, the files have pairwise
\* distinct names and one category, and no move failed.
SequentialFillCase ==
  /\ dest0 = << >>
  /\ log = {}
  /\ \A p, q \in unique_files : p[2] = q[2] => p = q
  /\ \A p, q \in unique_files : Category(p) = Category(q)

\* C10: when organize_files has placed n files of distinct names and one
\* category into an empty destination with capacity c and no move failed,
\* the batch folders are exactly 1..ceil(n/c), all but the last hold c files
\* and the last holds n - c*(ceil(n/c) - 1).
C10_SequentialFill ==
  (pc = "clean" /\ SequentialFillCase) =>
    LET n   == Cardinality(unique_files)
        c   == max_files_per_folder
        nf  == CeilDiv(n, c)
        cat == IF unique_files = {} THEN ""
               ELSE Category(CHOOSE p \in unique_files : TRUE)
    IN  /\ DOMAIN dest = {<<cat, i>> : i \in 1..nf}
        /\ \A i \in 1..(nf - 1) : Cardinality(dest[<<cat, i>>]) = c
        /\ nf > 0 => Cardinality(dest[<<cat, nf>>]) = n - c * (nf - 1)

\* C10 witness: three files went into two folders of capacity two.
C10_Witness ==
  /\ pc = "clean"
  /\ SequentialFillCase
  /\ Cardinality(unique_files) = 3
  /\ max_files_per_folder = 2
  /\ Cardinality(DOMAIN dest) = 2

\* The highest index among the numbered batch folders of tree d, 0 if none.
HighestIndex(d) ==
  LET nums == BatchNums(d, "") \ {NonNumeric}
  IN  IF nums = {} THEN 0 ELSE CHOOSE n \in nums : \A m \in nums : m <= n

\* The entries of folder k that this run wrote.
WrittenByRun(k) == {x \in dest[k] : x.origin[1] # "dest"}

\* C11: in sort_image.py every file of the run is placed in a folder numbered
\* above the highest index that existed before the run (from 1 when none
\* existed), the first of them in the folder highest index + 1, and no file
\* of the run is placed in a folder that existed before the run.
C11_ResumeAfterHighest ==
  variant = "img" =>
    /\ \A k \in DOMAIN dest :
         WrittenByRun(k) # {} => k \notin DOMAIN dest0 /\ k[2] > HighestIndex(dest0)
    /\ (\E k \in DOMAIN dest : WrittenByRun(k) # {}) =>
         \E k \in DOMAIN dest :
           k[2] = HighestIndex(dest0) + 1 /\ WrittenByRun(k) # {}

\* C13: when organize_files has returned, every batch folder the run created
\* holds at least one file.
C13_CreatedFoldersHoldAFile ==
  pc = "clean" =>
    \A k \in DOMAIN dest \ DOMAIN dest0 : dest[k] # {}

\* organize_files as a sequential program: a step that can be taken is taken.
FairSpecOrganize == SpecOrganize /\ WF_vars(NextOrganize)

\* get_next_batch_folder has returned the folder of the current number.
Returned == pc = "move"

\* C15: every call of get_next_batch_folder returns; the folder it returns
\* holds fewer than max_files_per_folder entries; and while one category is
\* processed the folder number never decreases.
C15_AllocatorProgress ==
  /\ (pc = "next_batch_folder") ~> Returned
  /\ [](Returned =>
          FileCount(dest, <<cur_category, current_folder_num>>) < max_files_per_folder)
  /\ [][pc \notin {"organize", "organize_category"} =>
          current_folder_num' >= current_folder_num]_vars

\* C15 witness: in sort_document.py a call has passed a folder that was full
\* before the run and has returned a later one.
C15_Witness ==
  /\ Returned
  /\ variant = "doc"
  /\ \E k \in DOMAIN dest0 :
       /\ k[1] = cur_category
       /\ k[2] < current_folder_num
       /\ k[2] # NonNumeric
       /\ Cardinality(dest0[k]) = max_files_per_folder

\* --------------------------------------------------- clean_source_directory
\* The paths in some list of duplicates.
DuplicatePaths(dups) == UNION {SeqToSet(dups[i].paths) : i \in 1..Len(dups)}

Parent(d) == CASE d = "source/a/b" -> "source/a" [] OTHER -> "source"

\* os.walk(source_dir, topdown=False): every directory after those inside it.
WalkOrder == <<"source/a/b", "source/a", "source">>

WalkBottomUp(dirs) == SelectSeq(WalkOrder, LAMBDA d : d \in dirs)

\* os.listdir(d) is empty: no file, no .DS_Store and no directory is in d.
DirIsEmpty(d) ==
  /\ \A p \in src_files : p[1] # d
  /\ d \notin ds_store
  /\ \A x \in src_dirs : x = d \/ Parent(x) # d

\* Mutant: the walk does not skip the root.
SkipRootNever(d) == FALSE

\* "if dirpath == str(self.source_dir): continue"
SkipRoot(d) == d = SourceRoot

\* The names the log gives a .DS_Store file and a directory.
DsStorePath(d) == <<d, [ts |-> 0, stem |-> ".DS_Store", ext |-> ""]>>
DirPath(d) == <<d, [ts |-> 0, stem |-> ".", ext |-> ""]>>

\* clean_source_directory is called.
CleanBegin ==
  /\ pc = "clean"
  /\ rm_todo' = processed_files
  /\ pc' = "clean_processed"
  /\ UNCHANGED <<cleanVars, dupVars, clsVars, orgVars, variant, src_files, mh_i,
                 unique_files, processed_hashes, duplicate_paths, log>>

\* One iteration of a removal loop over rm_todo: a file that no longer exists
\* is passed over; os.remove succeeds, or fails and the loop goes on.
RemoveOne ==
  \E p \in rm_todo :
    /\ rm_todo' = rm_todo \ {p}
    /\ IF p \notin src_files
       THEN UNCHANGED <<src_files, log>>
       ELSE \/ /\ src_files' = src_files \ {p}
               /\ log' = log
            \/ /\ src_files' = src_files
               /\ log' = log \cup {<<"remove", p>>}

\* "for file_path in self.processed_files"
CleanRemoveProcessed ==
  /\ pc = "clean_processed"
  /\ RemoveOne
  /\ UNCHANGED <<cleanVars, dupVars, clsVars, orgVars, variant, pc, mh_i,
                 unique_files, processed_hashes, duplicate_paths>>

\* The processed files are done: sort_document.py goes on to the duplicates,
\* sort_image.py to the .DS_Store files.
CleanProcessedDone ==
  /\ pc = "clean_processed"
  /\ rm_todo = {}
  /\ IF variant = "doc"
     THEN /\ rm_todo' = DuplicatePaths(duplicates)
          /\ pc' = "clean_duplicates"
          /\ walk_todo' = walk_todo
     ELSE /\ rm_todo' = rm_todo
          /\ pc' = "clean_ds_store"
          /\ walk_todo' = WalkBottomUp(src_dirs)
  /\ UNCHANGED <<src_dirs, ds_store, dupVars, clsVars, orgVars, variant,
                 src_files, mh_i, unique_files, processed_hashes,
                 duplicate_paths, log>>

\* sort_document.py: "for path_str in duplicate_files"
CleanRemoveDuplicate ==
  /\ pc = "clean_duplicates"
  /\ RemoveOne
  /\ UNCHANGED <<cleanVars, dupVars, clsVars, orgVars, variant, pc, mh_i,
                 unique_files, processed_hashes, duplicate_paths>>

CleanDuplicatesDone ==
  /\ pc = "clean_duplicates"
  /\ rm_todo = {}
  /\ pc' = "clean_ds_store"
  /\ walk_todo' = WalkBottomUp(src_dirs)
  /\ UNCHANGED <<src_dirs, ds_store, dupVars, clsVars, orgVars, variant,
                 src_files, mh_i, unique_files, processed_hashes,
                 duplicate_paths, rm_todo, log>>

\* The first walk: the .DS_Store file of the directory is removed, or the
\* removal fails and the walk goes on.
CleanDsStore ==
  /\ pc = "clean_ds_store"
  /\ walk_todo # << >>
  /\ LET d == Head(walk_todo)
     IN  IF d \notin ds_store
         THEN UNCHANGED <<ds_store, log>>
         ELSE \/ /\ ds_store' = ds_store \ {d}
                 /\ log' = log
              \/ /\ ds_store' = ds_store
                 /\ log' = log \cup {<<"remove", DsStorePath(d)>>}
  /\ walk_todo' = Tail(walk_todo)
  /\ UNCHANGED <<src_dirs, dupVars, clsVars, orgVars, variant, pc, src_files,
                 mh_i, unique_files, processed_hashes, duplicate_paths, rm_todo>>

CleanDsStoreDone ==
  /\ pc = "clean_ds_store"
  /\ walk_todo = << >>
  /\ pc' = "clean_rmdir"
  /\ walk_todo' = WalkBottomUp(src_dirs)
  /\ UNCHANGED <<src_dirs, ds_store, dupVars, clsVars, orgVars, variant,
                 src_files, mh_i, unique_files, processed_hashes,
                 duplicate_paths, rm_todo, log>>

\* The second walk: the root is skipped; a directory whose listing is empty is
\* removed, or os.rmdir fails and the walk goes on.
CleanRmdir ==
  /\ pc = "clean_rmdir"
  /\ walk_todo # << >>
  /\ LET d == Head(walk_todo)
     IN  IF SkipRoot(d) \/ ~DirIsEmpty(d)
         THEN UNCHANGED <<src_dirs, log>>
         ELSE \/ /\ src_dirs' = src_dirs \ {d}
                 /\ log' = log
              \/ /\ src_dirs' = src_dirs
                 /\ log' = log \cup {<<"rmdir", DirPath(d)>>}
  /\ walk_todo' = Tail(walk_todo)
  /\ UNCHANGED <<ds_store, dupVars, clsVars, orgVars, variant, pc, src_files,
                 mh_i, unique_files, processed_hashes, duplicate_paths, rm_todo>>

\* clean_source_directory returns and main ends.
CleanDone ==
  /\ pc = "clean_rmdir"
  /\ walk_todo = << >>
  /\ pc' = "done"
  /\ UNCHANGED <<cleanVars, dupVars, clsVars, orgVars, variant, src_files, mh_i,
                 unique_files, processed_hashes, duplicate_paths, rm_todo, log>>

NextClean ==
  \/ CleanBegin
  \/ CleanRemoveProcessed
  \/ CleanProcessedDone
  \/ CleanRemoveDuplicate
  \/ CleanDuplicatesDone
  \/ CleanDsStore
  \/ CleanDsStoreDone
  \/ CleanRmdir
  \/ CleanDone

\* ------------------------------------------------- the whole run (Spec)
\* What a file of the source tree is, in the runs of main from start to end.
RunKinds(v) ==
  IF v = "doc"
  THEN {[ext |-> ".txt", content |-> DocContent(TRUE, TRUE, FALSE, FALSE, FALSE, -1, t)] :
          t \in {<< >>, <<"a">>, <<"b">>}}
  ELSE {[ext |-> ".jpg", content |-> [readable |-> TRUE, phash |-> <<0, 0, 0>>, chunks |-> << >>]],
        [ext |-> ".JPG", content |-> [readable |-> FALSE, phash |-> << >>, chunks |-> << >>]]}

\* main() runs on a source tree of up to MaxRunFiles files, two directories
\* holding a .DS_Store file, with an empty destination.
Init ==
  /\ \E v \in {"doc", "img"} : \E n \in 0..MaxRunFiles :
       \E fs \in FileLists(RunKinds(v), n) : MainStart(v, fs)
  /\ ClsIdle
  /\ max_files_per_folder = MaxCapacity
  /\ dest0 = << >>
  /\ dest = << >>
  /\ current_folder_num = 1
  /\ processed_files = {}
  /\ org_todo = {}
  /\ cur_category = ""
  /\ org_file = {}
  /\ src_dirs = Dirs
  /\ ds_store = {"source", "source/a/b"}
  /\ walk_todo = << >>

Next == NextDedup \/ NextOrganize \/ NextClean

Spec == Init /\ [][Next]_vars

\* Every step of the run that can be taken is taken in the end: the program
\* is sequential and every call it makes returns.
FairSpec == Spec /\ WF_vars(Next)

\* C7: every directory clean_source_directory removes is not the source root
\* and holds no file, no .DS_Store and no directory when it is removed, and
\* the source root is never removed.
C7_OnlyEmptyNonRootRemoved ==
  [][/\ \A d \in src_dirs \ src_dirs' : d # SourceRoot /\ DirIsEmpty(d)
     /\ SourceRoot \in src_dirs']_vars

\* C7 witness: the run ended, a directory was removed, a directory that
\* holds a file stayed and so did the root, which holds nothing.
C7_Witness ==
  /\ pc = "done"
  /\ "source/a/b" \notin src_dirs
  /\ "source/a" \in src_dirs
  /\ \E p \in src_files : p[1] = "source/a"
  /\ SourceRoot \in src_dirs
  /\ \A p \in src_files : p[1] # SourceRoot
  /\ SourceRoot \notin ds_store

\* clean_source_directory was called: sort_document.py's main returns at once
\* on a source tree without documents.
CleanCalled == variant = "img" \/ Len(files) > 0

\* Every file was handled or skipped: each file given to organize_files was
\* placed or its move failed; each placed file and each duplicate is gone
\* from the source or its removal failed; after clean_source_directory each
\* .DS_Store left and each empty directory left below the root failed to be
\* removed.
HandledOrSkipped ==
  /\ \A p \in unique_files : p \in processed_files \/ <<"move", p>> \in log
  /\ \A p \in processed_files : p \notin src_files \/ <<"remove", p>> \in log
  /\ \A p \in (IF variant = "doc" THEN DuplicatePaths(duplicates) ELSE duplicate_paths) :
       \/ p \notin src_files
       \/ <<"remove", p>> \in log
       \/ <<"unlink", p>> \in log
  /\ CleanCalled =>
       /\ \A d \in ds_store : <<"remove", DsStorePath(d)>> \in log
       /\ \A d \in src_dirs \ {SourceRoot} :
            DirIsEmpty(d) => <<"rmdir", DirPath(d)>> \in log

DuplicateSet ==
  IF variant = "doc" THEN DuplicatePaths(duplicates) ELSE duplicate_paths

\* The content of the source file at path p is in a destination folder.
ContentInDest(p) == \E k \in DOMAIN dest : \E x \in dest[k] : x.origin = p

\* C14: every file of the run that is no longer in the source tree is in the
\* duplicate set or has its content in a destination batch folder.
C14_NoContentLost ==
  \A p \in PathsOf(files) \ src_files : p \in DuplicateSet \/ ContentInDest(p)

\* ------------------------------------------------ grouping vocabulary
\* The paths hash_dict holds: the canonical files.
Canonicals(hd) == {hd[i].path : i \in 1..Len(hd)}

\* The keys (canonical hashes) of the groups path p belongs to.
GroupKeys(hd, dups, p) ==
  {hd[i].hash : i \in {j \in 1..Len(hd) : hd[j].path = p}}
    \cup {dups[i].hash : i \in {j \in 1..Len(dups) : p \in SeqToSet(dups[j].paths)}}

\* Files p and q are in one group (canonical plus its duplicates).
SameGroup(hd, dups, p, q) == GroupKeys(hd, dups, p) \cap GroupKeys(hd, dups, q) # {}

\* Indices of the files already processed that have a signature.
Hashed == {i \in 1..fd_i : ImgComputeFileHash(files[i]) # NoHash}

\* Pairs i < j of processed image files whose digests are within the threshold.
ClosePairs ==
  {p \in Hashed \X Hashed :
     /\ p[1] < p[2]
     /\ HexDistance(ImgComputeFileHash(files[p[1]]),
                    ImgComputeFileHash(files[p[2]])) <= hash_threshold}

\* C12: a processed image with a digest is a duplicate if and only if some
\* canonical image processed before it has a digest within hash_threshold of
\* its own in bit-level Hamming distance.
C12_BitHammingRule ==
  \A j \in Hashed :
    (files[j].path \in DuplicatePaths(duplicates))
      <=> \E i \in Hashed :
            /\ i < j
            /\ files[i].path \in Canonicals(hash_dict)
            /\ BitDistance(ImgComputeFileHash(files[j]),
                           ImgComputeFileHash(files[i])) <= hash_threshold

\* C5 (original claim): of any two image files whose digests are within the
\* threshold, exactly one is canonical and the other is a duplicate.
C5_ExactlyOneCanonical ==
  \A p \in ClosePairs :
    LET a == files[p[1]].path
        b == files[p[2]].path
    IN  \/ a \in Canonicals(hash_dict) /\ b \in DuplicatePaths(duplicates)
                                       /\ b \notin Canonicals(hash_dict)
        \/ b \in Canonicals(hash_dict) /\ a \in DuplicatePaths(duplicates)
                                       /\ a \notin Canonicals(hash_dict)

\* C5 (amended): of any two image files whose digests are within the
\* threshold (in differing hex digits, which a bit distance within the
\* threshold implies), at most one is canonical and at least one is classified
\* as a duplicate: each is either canonical or a duplicate, never both, the
\* two are never both canonical (both may be duplicates), and when the
\* earlier one is canonical the later one is a duplicate.
C5_AtMostOneCanonical ==
  \A p \in ClosePairs :
    LET a == files[p[1]].path
        b == files[p[2]].path
    IN  /\ (a \in Canonicals(hash_dict)) # (a \in DuplicatePaths(duplicates))
        /\ (b \in Canonicals(hash_dict)) # (b \in DuplicatePaths(duplicates))
        /\ ~(a \in Canonicals(hash_dict) /\ b \in Canonicals(hash_dict))
        /\ a \in Canonicals(hash_dict) => b \in DuplicatePaths(duplicates)

\* C5 witness: three files processed, the last two within the threshold of
\* each other and both duplicates of the first.
C5_Witness ==
  /\ fd_i = 3
  /\ <<2, 3>> \in ClosePairs
  /\ files[1].path \in Canonicals(hash_dict)
  /\ {files[2].path, files[3].path} \subseteq DuplicatePaths(duplicates)

\* C6 (original claim): two files in one group under hash_threshold are in
\* one group under the larger hash_threshold2.
C6_Monotone ==
  fd_i = Len(files) =>
    \A i, j \in Hashed :
      SameGroup(hash_dict, duplicates, files[i].path, files[j].path)
        => SameGroup(hash_dict2, duplicates2, files[i].path, files[j].path)

\* C6 (amended): the first file with a signature is canonical under every
\* threshold, and every file grouped with it under hash_threshold is grouped
\* with it under the larger hash_threshold2; other groups may split.
C6_FirstGroupMonotone ==
  Hashed # {} =>
    LET first == CHOOSE i \in Hashed : \A j \in Hashed : i <= j
        a == files[first].path
    IN  /\ a \in Canonicals(hash_dict) /\ a \in Canonicals(hash_dict2)
        /\ \A j \in Hashed :
             SameGroup(hash_dict, duplicates, a, files[j].path)
               => SameGroup(hash_dict2, duplicates2, a, files[j].path)

\* C6 witness: the run ended, the thresholds differ and a file that was
\* canonical under the smaller threshold is grouped with the first file under
\* the larger one.
C6_Witness ==
  /\ fd_i = Len(files)
  /\ hash_threshold < hash_threshold2
  /\ Len(files) >= 2
  /\ 1 \in Hashed
  /\ \E j \in Hashed :
       /\ j # 1
       /\ files[j].path \in Canonicals(hash_dict)
       /\ SameGroup(hash_dict2, duplicates2, files[1].path, files[j].path)
\* ------------------------------------------------- claims on SpecDedup
\* The index of path p in files.
IndexOf(p) == CHOOSE i \in 1..Len(files) : files[i].path = p

\* The files that are candidates for deletion as duplicates: the lists
\* clean_source_directory is given (sort_document.py), the paths main marked
\* (sort_image.py).
DeletionCandidates ==
  IF variant = "doc" THEN DuplicatePaths(duplicates) ELSE duplicate_paths

\* C2: when main hands unique_files to organize_files, in every duplicate
\* group the first-seen member is the canonical one and the only member of
\* the group in unique_files; every other member is left out of unique_files
\* and is a candidate for deletion.
C2_FirstSeenSurvives ==
  pc = "organize" =>
    \A i \in 1..Len(duplicates) :
      LET canon == hash_dict[DictIndex(hash_dict, duplicates[i].hash)].path
      IN  /\ canon \in unique_files
          /\ \A m \in SeqToSet(duplicates[i].paths) :
               /\ IndexOf(canon) < IndexOf(m)
               /\ m \notin unique_files
               /\ m \in DeletionCandidates

\* C3: a file without a signature is in no list of duplicates and is in the
\* set of files handed to organize_files.
C3_UnsignedStillRelocated ==
  pc = "organize" =>
    \A i \in 1..Len(files) :
      ComputeFileHash(files[i]) = NoHash =>
        /\ files[i].path \notin DuplicatePaths(duplicates)
        /\ files[i].path \notin duplicate_paths
        /\ files[i].path \in unique_files

\* The text with its whitespace removed, in lower case (the claim's notion).
StripLower(t) ==
  LET kept == SelectSeq(t, LAMBDA c : ~IsSpace(c))
  IN  [i \in 1..Len(kept) |-> LowerChar(kept[i])]

\* The files find_duplicates has processed that are readable text-format files.
TextFiles ==
  {i \in 1..fd_i : Ext(files[i]) \notin binary_formats /\ files[i].content.readable}

\* Files i and j have one signature and are in one group with one canonical.
GroupedTogether(i, j) ==
  LET h == DocComputeFileHash(files[i])
  IN  /\ h # NoHash
      /\ DocComputeFileHash(files[j]) = h
      /\ SameGroup(hash_dict, duplicates, files[i].path, files[j].path)
      /\ Cardinality({k \in 1..fd_i : /\ DocComputeFileHash(files[k]) = h
                                      /\ files[k].path \in Canonicals(hash_dict)}) = 1

\* C4 (original claim): two text-format files whose decoded contents are
\* identical after removing whitespace and lowercasing, the empty string
\* included, have one signature and are in one group with one canonical.
C4_NormalizedEqualGrouped ==
  variant = "doc" =>
    \A i, j \in TextFiles :
      (i < j /\ StripLower(files[i].content.text) = StripLower(files[j].content.text))
        => GroupedTogether(i, j)

\* C4 (amended): two text-format files whose decoded contents are not empty
\* (whitespace alone counts as content) and are identical after removing
\* whitespace and lowercasing have one signature and are in one group with
\* one canonical; a file whose content is empty has no signature and is in
\* no group.
C4_NonEmptyNormalizedEqualGrouped ==
  variant = "doc" =>
    /\ \A i, j \in TextFiles :
         (/\ i < j
          /\ files[i].content.text # << >>
          /\ files[j].content.text # << >>
          /\ StripLower(files[i].content.text) = StripLower(files[j].content.text))
           => GroupedTogether(i, j)
    /\ \A i \in TextFiles :
         files[i].content.text = << >> =>
           /\ DocComputeFileHash(files[i]) = NoHash
           /\ GroupKeys(hash_dict, duplicates, files[i].path) = {}

\* C4 witness: two text files of different contents, equal after
\* normalization, went through find_duplicates into one group.
C4_Witness ==
  /\ variant = "doc"
  /\ pc = "organize"
  /\ \E i, j \in TextFiles :
       /\ i < j
       /\ files[i].content.text # files[j].content.text
       /\ StripLower(files[i].content.text) = <<"a">>
       /\ GroupedTogether(i, j)
====
